---- MODULE Spec2Model ----
(***************************************************************************)
(* Conversation and emotion state engine of conversational-emotion-ai:     *)
(* EmotionHistory (src/src/emotion_analyzer.py), the response strategy     *)
(* selection of EmotionAwareResponseGenerator (src/src/response_generator  *)
(* .py), the ConversationManager ledger (src/src/conversation_manager.py)  *)
(* and the turn routine process_user_input (src/app.py); further the       *)
(* classifier client HumeEmotionAnalyzer with its keyword fallback, the    *)
(* prompt construction and the fallback texts of the generator, the        *)
(* personality estimator, and the process-wide cache of                    *)
(* src/src/optimization.py as sessions of one server process use it.       *)
(*                                                                         *)
(* Scores, confidences, thresholds and temperatures are Python floats in   *)
(* [0,1]; here they are integers in units of 1/600 (Tenths(7) is 0.7), so  *)
(* that every mean over 1..5 records of scores that are multiples of 0.1   *)
(* is an exact integer.                                                    *)
(***************************************************************************)
EXTENDS Integers, Sequences, FiniteSets, TLC

VARIABLES
    max_history,      \* EmotionHistory.max_history
    history,          \* EmotionHistory.history
    inserted,         \* every record ever passed to add_emotion, in call order
    emotion_result,   \* the EmotionResult handed to the response generator
    api_call,         \* the last request sent to the generation collaborator
    messages,         \* ConversationManager.messages
    conversation_id,  \* ConversationManager.conversation_id
    emotion_history,  \* ConversationManager.emotion_history
    now,              \* the wall clock read by datetime.now()
    files,            \* the history directory: path -> file content
    last_saved,       \* path -> the document of the last save that completed
    save_pc,          \* where save_conversation stands: "idle" or "writing"
    turn_pc,          \* where process_user_input stands
    turn_start,       \* messages as they were when the current turn started
    personality_profile, \* session -> the PersonalityProfile of its manager
    cache_manager,    \* optimization.cache_manager, the module's one CacheManager
    cache_writer,     \* cache key -> the session whose call stored the entry
    user_text,        \* the text handed to analyze_emotion
    hume_session,     \* HumeEmotionAnalyzer.session is set (async with was used)
    hume_response,    \* what the classifier call does when it is made
    computed_at,      \* cache key -> when the call that produced its entry ran
    batch_processor,  \* the BatchProcessor of a manager
    callers,          \* caller -> where its add_request call stands
    ret               \* the last call: its name, arguments and outcome

histVars == <<max_history, history, inserted>>
genVars == <<emotion_result, api_call>>
ledgerVars == <<messages, conversation_id, emotion_history>>
fsVars == <<files, last_saved, save_pc>>
turnVars == <<turn_pc, turn_start>>
optVars == <<computed_at, batch_processor, callers>>
extVars == <<personality_profile, cache_manager, cache_writer,
             user_text, hume_session, hume_response, optVars>>

vars == <<max_history, history, inserted, emotion_result, api_call,
          messages, conversation_id, emotion_history, now, files, last_saved,
          save_pc, turn_pc, turn_start, personality_profile, cache_manager,
          cache_writer, user_text, hume_session, hume_response, computed_at,
          batch_processor, callers, ret>>

\* ---------------------------------------------------------------- bounds
MaxCapacity == 6
MaxAdds == 7
MaxMessages == 2
MaxTurns == 2
MaxTime == 1
MaxKeywords == 4
MaxPredictions == 2
MaxExchanges == 7
MaxUpdates == 3
WarmUpdates == 18
MaxTurnList == 3
MaxRetries == 3
MaxCacheSize == 2
MaxCacheTime == 3
MaxElapsed == 7200
MaxBatchTime == 3

\* ----------------------------------------------------------- value helpers
Tenths(t) == 60 * t

Min(a, b) == IF a <= b THEN a ELSE b

\* Python's None, and "nothing returned yet"
None == [tag |-> "None"]

\* the outcome of a call: it returns a value or raises an exception
Return(op, args, value) == [op |-> op, args |-> args, value |-> value, raised |-> ""]
Raise(op, args, exc) == [op |-> op, args |-> args, value |-> None, raised |-> exc]
NoCall == Return("none", << >>, None)

\* seq[-k:] of Python for k >= 1
LastK(seq, k) == SubSeq(seq, Len(seq) - Min(k, Len(seq)) + 1, Len(seq))

\* sorted(items, key=score, reverse=True) of Python on the keys of a dict, in
\* the dict's order: highest score first, and the sort is stable, so keys of
\* equal score keep the order the dict lists them in
RECURSIVE SortedByScoreDesc(_, _)
SortedByScoreDesc(keys, score) ==
    IF keys = << >> THEN << >>
    ELSE LET best == CHOOSE i \in DOMAIN keys :
                       /\ \A j \in DOMAIN keys : score[keys[j]] <= score[keys[i]]
                       /\ \A j \in 1..(i - 1) : score[keys[j]] < score[keys[i]]
             rest == [ j \in 1..(Len(keys) - 1) |->
                         IF j < best THEN keys[j] ELSE keys[j + 1] ]
         IN  <<keys[best]>> \o SortedByScoreDesc(rest, score)

\* seq[:k] of Python for k >= 0
FirstK(seq, k) == SubSeq(seq, 1, Min(k, Len(seq)))

\* seq[i:] of Python for any integer i: a negative i counts from the end, and
\* -0 is 0, the start of the list
SliceFrom(seq, i) ==
    LET n == Len(seq)
        start == IF i < 0 THEN (IF n + i < 0 THEN 0 ELSE n + i) ELSE Min(i, n)
    IN  SubSeq(seq, start + 1, n)

\* dict.get(key, default)
DictGet(d, key, default) == IF key \in DOMAIN d THEN d[key] ELSE default

\* ------------------------------------------------------- emotion_analyzer
primary_emotions ==
    << "joy", "sadness", "anger", "fear", "surprise", "disgust",
       "contempt", "excitement", "amusement", "contentment",
       "disappointment", "doubt", "enthusiasm", "interest",
       "satisfaction", "shame", "sympathy", "tiredness" >>

PrimaryEmotionSet == { primary_emotions[i] : i \in DOMAIN primary_emotions }

\* EmotionResult (timestamp left out: no operation modelled here reads it)
EmotionResult(emotions, dominant_emotion, confidence, text) ==
    [ emotions |-> emotions, dominant_emotion |-> dominant_emotion,
      confidence |-> confidence, text |-> text ]

\* The emotion mappings the callers of add_emotion pass (the test suite passes
\* partial mappings such as {'joy': 0.5}); the text numbers the record.
SampleEmotions ==
    { ("joy" :> Tenths(5)),
      ("joy" :> Tenths(10)) @@ ("sadness" :> Tenths(1)),
      ("sadness" :> Tenths(3)) }

DominantOf(emotions) ==
    CHOOSE l \in DOMAIN emotions : \A m \in DOMAIN emotions : emotions[m] <= emotions[l]

\* max(d.items(), key=score)[0] of Python on a dict whose keys are listed in
\* `order`: the first key, in the dict's order, that has the highest score
FirstMax(order, score) ==
    order[ CHOOSE i \in DOMAIN order :
             /\ \A j \in DOMAIN order : score[order[j]] <= score[order[i]]
             /\ \A j \in 1..(i - 1) : score[order[j]] < score[order[i]] ]

\* a dict with its insertion order: `order` lists the keys of `val`
OrderedDict(order, val) == [order |-> order, val |-> val]

\* str.lower() on the emotion names a classifier response carries
LowerCased == ("Joy" :> "joy") @@ ("Sadness" :> "sadness")
Lower(name) == IF name \in DOMAIN LowerCased THEN LowerCased[name] ELSE name

_default_emotions ==
    OrderedDict(primary_emotions, [ l \in PrimaryEmotionSet |-> 0 ])

\* lines 138-146 of _extract_emotions: the dict after the loop over the
\* predictions of the response
RECURSIVE ExtractLoop(_)
ExtractLoop(predictions) ==
    IF predictions = << >> THEN OrderedDict(<< >>, << >>)
    ELSE LET before == ExtractLoop(SubSeq(predictions, 1, Len(predictions) - 1))
             prediction == predictions[Len(predictions)]
             emotion_name == Lower(prediction.name)
         IN  IF emotion_name \in PrimaryEmotionSet
             THEN OrderedDict(
                    IF emotion_name \in DOMAIN before.val THEN before.order
                    ELSE Append(before.order, emotion_name),
                    (emotion_name :> prediction.score) @@ before.val)
             ELSE before

\* _extract_emotions(api_response) on a parsed response body
_extract_emotions(body) ==
    IF body.shape = "bad_structure" THEN _default_emotions
    ELSE IF body.shape = "no_predictions" THEN _default_emotions
    ELSE LET listed == ExtractLoop(body.predictions)
         IN  OrderedDict(
               listed.order \o
                 SelectSeq(primary_emotions, LAMBDA l : l \notin DOMAIN listed.val),
               [ l \in PrimaryEmotionSet |-> DictGet(listed.val, l, 0) ])

\* the keyword table of _fallback_emotion_analysis
emotion_keywords ==
    [ joy |-> {"happy", "joy", "excited", "great", "awesome", "wonderful", "amazing"},
      sadness |-> {"sad", "depressed", "down", "unhappy", "disappointed", "upset"},
      anger |-> {"angry", "mad", "furious", "annoyed", "frustrated", "irritated"},
      fear |-> {"scared", "afraid", "worried", "anxious", "nervous", "terrified"},
      surprise |-> {"surprised", "shocked", "unexpected", "sudden", "wow"},
      amusement |-> {"funny", "hilarious", "laugh", "haha", "lol", "amusing"} ]

\* A text is the set of the table's keywords that occur in it as substrings
\* (`keyword in text_lower`); a text that contains "unhappy" contains "happy".
IsText(words) == "unhappy" \in words => "happy" \in words

_fallback_emotion_analysis(text) ==
    LET emotions == [ l \in PrimaryEmotionSet |->
                        IF l \in DOMAIN emotion_keywords
                        THEN Tenths(3) * Cardinality(emotion_keywords[l] \cap text)
                        ELSE 0 ]
        dominant_emotion == FirstMax(primary_emotions, emotions)
    IN  IF emotions[dominant_emotion] = 0
        THEN EmotionResult([emotions EXCEPT !["contentment"] = Tenths(5)],
                           "contentment", Tenths(5), text)
        ELSE EmotionResult(emotions, dominant_emotion, emotions[dominant_emotion], text)

\* lines 100-114 of analyze_emotion: the result built from a parsed body
ClassifierResult(text, body) ==
    LET emotions == _extract_emotions(body)
        dominant_emotion == FirstMax(emotions.order, emotions.val)
    IN  EmotionResult(emotions.val, dominant_emotion, emotions.val[dominant_emotion], text)

\* what the try block of analyze_emotion raises, "" when it returns
AnalyzeFailure(session, response) ==
    IF ~session THEN "RuntimeError"
    ELSE IF response.kind = "raises" THEN "HTTPError"
    ELSE IF response.status_code # 200 THEN ""
    ELSE IF response.body.shape = "invalid_json" THEN "JSONDecodeError"
    ELSE IF response.body.shape = "unorderable_scores" THEN "TypeError"
    ELSE ""

\* analyze_emotion(text): session tells whether the HTTP session was opened,
\* response is what the classifier call does. The outcome of the call.
analyze_emotion_no_handler(text, session, response) ==
    LET failure == AnalyzeFailure(session, response)
    IN  IF failure # "" THEN [raised |-> failure, value |-> None]
        ELSE IF response.status_code # 200
        THEN [raised |-> "", value |-> _fallback_emotion_analysis(text)]
        ELSE [raised |-> "", value |-> ClassifierResult(text, response.body)]

analyze_emotion(text, session, response) ==
    LET failure == AnalyzeFailure(session, response)
    IN  IF failure # "" THEN [raised |-> "", value |-> _fallback_emotion_analysis(text)]
        ELSE IF response.status_code # 200
        THEN [raised |-> "", value |-> _fallback_emotion_analysis(text)]
        ELSE [raised |-> "", value |-> ClassifierResult(text, response.body)]

\* history after EmotionHistory.add_emotion(emotion_result)
add_emotion_drop_newest(h, cap, r) ==
    LET appended == Append(h, r)
    IN  IF Len(appended) > cap THEN SubSeq(appended, 1, Len(appended) - 1) ELSE appended

add_emotion(h, cap, r) ==
    LET appended == Append(h, r)
    IN  IF Len(appended) > cap THEN Tail(appended) ELSE appended

TrendWindow == 5

\* the accumulation loops of get_emotion_trend: emotion_sums after the records
\* of `recent` were visited in order
RECURSIVE emotion_sums(_)
emotion_sums(recent) ==
    IF recent = << >> THEN << >>
    ELSE LET before == emotion_sums(SubSeq(recent, 1, Len(recent) - 1))
             e == recent[Len(recent)].emotions
         IN  [ l \in DOMAIN before \cup DOMAIN e |->
                 IF l \in DOMAIN e THEN DictGet(before, l, 0) + e[l]
                 ELSE before[l] ]

get_emotion_trend_whole_history(h) ==
    IF h = << >> THEN << >>
    ELSE LET sums == emotion_sums(h)
         IN  [ l \in DOMAIN sums |-> sums[l] \div Len(h) ]

get_emotion_trend(h) ==
    IF h = << >> THEN << >>
    ELSE LET recent == LastK(h, TrendWindow)
             sums == emotion_sums(recent)
             num_results == Len(recent)
         IN  [ l \in DOMAIN sums |-> sums[l] \div num_results ]

\* ----------------------------------------------------- response_generator
_default_strategies ==
    << [ name |-> "high_positive", threshold |-> Tenths(7),
         emotions |-> {"joy", "excitement", "amusement", "enthusiasm"},
         approach |-> "amplify_positive" ],
       [ name |-> "moderate_positive", threshold |-> Tenths(4),
         emotions |-> {"contentment", "interest", "satisfaction"},
         approach |-> "gentle_encouragement" ],
       [ name |-> "negative", threshold |-> Tenths(3),
         emotions |-> {"sadness", "anger", "fear", "disappointment", "shame"},
         approach |-> "empathetic_support" ],
       [ name |-> "neutral", threshold |-> Tenths(2),
         emotions |-> {"doubt", "tiredness"},
         approach |-> "balanced_engagement" ] >>

response_strategies == _default_strategies

RowMatches(row, r) ==
    r.dominant_emotion \in row.emotions /\ r.confidence >= row.threshold

\* the first row, in the table's iteration order, that matches; 0 when none
FirstMatch(r) ==
    IF \E i \in DOMAIN response_strategies : RowMatches(response_strategies[i], r)
    THEN CHOOSE i \in DOMAIN response_strategies :
            /\ RowMatches(response_strategies[i], r)
            /\ \A j \in 1..(i - 1) : ~RowMatches(response_strategies[j], r)
    ELSE 0

_determine_response_strategy_no_threshold(r) ==
    IF \E i \in DOMAIN response_strategies :
          r.dominant_emotion \in response_strategies[i].emotions
    THEN response_strategies[
            CHOOSE i \in DOMAIN response_strategies :
                r.dominant_emotion \in response_strategies[i].emotions ].name
    ELSE "balanced_engagement"

_determine_response_strategy(r) ==
    IF FirstMatch(r) # 0
    THEN response_strategies[FirstMatch(r)].name
    ELSE "balanced_engagement"

temperature_map ==
    ("amplify_positive" :> Tenths(8)) @@ ("gentle_encouragement" :> Tenths(6)) @@
    ("empathetic_support" :> Tenths(4)) @@ ("balanced_engagement" :> Tenths(7))

_get_temperature_for_strategy(s) == DictGet(temperature_map, s, Tenths(7))

\* f"{score:.2f}": a score in hundredths
Hundredths(score) == (score + 3) \div 6

\* _format_emotion_trend(emotion_trend) on a dict with its insertion order:
\* the text, given by its fixed wording or by the items it lists
_format_emotion_trend(emotion_trend) ==
    IF emotion_trend.order = << >>
    THEN [text |-> "No previous emotional context", items |-> << >>]
    ELSE LET top_emotions ==
                 FirstK(SortedByScoreDesc(emotion_trend.order, emotion_trend.val), 3)
         IN  [ text |-> "",
               items |-> [ i \in DOMAIN top_emotions |->
                             << top_emotions[i],
                                Hundredths(emotion_trend.val[top_emotions[i]]) >> ] ]

\* _build_system_prompt(strategy, context): the parts the text is made of
StrategyPrompts ==
    { "amplify_positive", "gentle_encouragement", "empathetic_support",
      "balanced_engagement" }

_build_system_prompt(strategy, context) ==
    [ strategy_prompt |-> IF strategy \in StrategyPrompts THEN strategy
                          ELSE "balanced_engagement",
      dominant_emotion |-> context.emotion_result.dominant_emotion,
      confidence |-> Hundredths(context.emotion_result.confidence),
      trend |-> _format_emotion_trend(context.emotion_trend) ]

\* ConversationContext
ConversationContext(user_message, result, conversation_history, emotion_trend) ==
    [ user_message |-> user_message, emotion_result |-> result,
      conversation_history |-> conversation_history, emotion_trend |-> emotion_trend ]

ChatMessage(role, content) == [role |-> role, content |-> content]

\* _build_message_history(context, system_prompt)
_build_message_history_oldest(context, system_prompt) ==
    LET recent_history == FirstK(context.conversation_history, 6)
        n == Len(recent_history)
    IN  <<ChatMessage("system", system_prompt)>>
        \o [ k \in 1..(2 * n) |->
               IF k % 2 = 1
               THEN ChatMessage("user", DictGet(recent_history[(k + 1) \div 2], "user", ""))
               ELSE ChatMessage("assistant", DictGet(recent_history[k \div 2], "bot", "")) ]
        \o <<ChatMessage("user", context.user_message)>>

_build_message_history(context, system_prompt) ==
    LET recent_history == IF context.conversation_history # << >>
                          THEN SliceFrom(context.conversation_history, 0 - 6)
                          ELSE << >>
        n == Len(recent_history)
    IN  <<ChatMessage("system", system_prompt)>>
        \o [ k \in 1..(2 * n) |->
               IF k % 2 = 1
               THEN ChatMessage("user", DictGet(recent_history[(k + 1) \div 2], "user", ""))
               ELSE ChatMessage("assistant", DictGet(recent_history[k \div 2], "bot", "")) ]
        \o <<ChatMessage("user", context.user_message)>>

\* _fallback_response(emotion_result)
fallback_responses ==
    [ joy |-> "I can sense your positive energy! That's wonderful to hear.",
      sadness |-> "I understand you might be feeling down. I'm here to listen.",
      anger |-> "I can tell you might be frustrated. Let's talk through this.",
      fear |-> "It sounds like you might be worried. That's completely understandable.",
      surprise |-> "That sounds unexpected! I'd love to hear more about it.",
      amusement |-> "I love that you're finding humor in things!",
      excitement |-> "Your enthusiasm comes through clearly!",
      contentment |-> "You seem to be in a peaceful place right now." ]

_fallback_response(result) ==
    DictGet(fallback_responses, result.dominant_emotion,
            "I'm here to chat with you and understand how you're feeling.")

\* a call of _build_system_prompt(self, strategy, context) with the positional
\* arguments args: Python raises TypeError unless both parameters are bound
CallBuildSystemPrompt(args) ==
    IF Len(args) # 2 THEN [raised |-> "TypeError", value |-> None]
    ELSE [raised |-> "", value |-> _build_system_prompt(args[1], args[2])]

\* the second definition of generate_response (lines 249-291), the one the
\* name is bound to: generate_response(messages, emotion_context, temperature,
\* max_tokens). completion is what the generation collaborator does when called.
generate_response_raises(msgs, emotion_context, temperature, max_tokens, completion) ==
    LET prompt == CallBuildSystemPrompt(<<emotion_context>>)
    IN  IF prompt.raised # "" THEN [raised |-> prompt.raised, value |-> None]
        ELSE IF ~completion.ok THEN [raised |-> "APIError", value |-> None]
        ELSE [raised |-> "", value |-> completion.text]

generate_response(msgs, emotion_context, temperature, max_tokens, completion) ==
    LET prompt == CallBuildSystemPrompt(<<emotion_context>>)
        failed == prompt.raised # "" \/ ~completion.ok
    IN  IF failed
        THEN [ raised |-> "",
               value |-> "I'm having trouble generating a response right now. Could you try rephrasing your question?" ]
        ELSE [raised |-> "", value |-> completion.text]

\* ---------------------------------------------------- conversation_manager
ValidRoles == {"user", "assistant"}

\* Python truthiness of an Optional[Dict]: neither None nor the empty dict
Truthy(emotions) == emotions # None /\ DOMAIN emotions # {}

Message(role, content, timestamp, emotions) ==
    [ role |-> role, content |-> content, timestamp |-> timestamp,
      emotions |-> emotions ]

\* f"conv_{datetime.now().strftime('%Y%m%d_%H%M%S')}": the clock cut to whole
\* seconds; the model's clock ticks twice a second
GeneratedId(t) == <<"conv", t \div 2>>

\* history_dir / f"{conversation_id}.json"
PathOf(id) == <<"data/conversation_history", id>>

\* ConversationManager.add_message at clock value t: what it raises, and the
\* messages and emotion_history it leaves
add_message_no_role_check(conv, role, content, emotions, t) ==
    [ raised |-> "",
      messages |-> Append(conv.messages, Message(role, content, t, emotions)),
      emotion_history |->
          IF role = "user" /\ Truthy(emotions)
          THEN Append(conv.emotion_history, emotions)
          ELSE conv.emotion_history ]

add_message_emotions_not_none(conv, role, content, emotions, t) ==
    IF role \notin ValidRoles
    THEN [ raised |-> "ValueError", messages |-> conv.messages,
           emotion_history |-> conv.emotion_history ]
    ELSE [ raised |-> "",
           messages |-> Append(conv.messages, Message(role, content, t, emotions)),
           emotion_history |->
               IF role = "user" /\ emotions # None
               THEN Append(conv.emotion_history, emotions)
               ELSE conv.emotion_history ]

add_message(conv, role, content, emotions, t) ==
    IF role \notin ValidRoles
    THEN [ raised |-> "ValueError", messages |-> conv.messages,
           emotion_history |-> conv.emotion_history ]
    ELSE [ raised |-> "",
           messages |-> Append(conv.messages, Message(role, content, t, emotions)),
           emotion_history |->
               IF role = "user" /\ Truthy(emotions)
               THEN Append(conv.emotion_history, emotions)
               ELSE conv.emotion_history ]

\* json.dump / json.load of one message: None becomes null and back, a dict
\* becomes an object and back; strings and floats are written and read as such
JsonOfEmotions(e) ==
    IF e = None THEN [json |-> "null"] ELSE [json |-> "object", members |-> e]

EmotionsOfJson(j) == IF j.json = "null" THEN None ELSE j.members

JsonOfMessage(m) ==
    [ role |-> m.role, content |-> m.content, timestamp |-> m.timestamp,
      emotions |-> JsonOfEmotions(m.emotions) ]

MessageOfJson(j) ==
    Message(j.role, j.content, j.timestamp, EmotionsOfJson(j.emotions))

\* the document save_conversation writes
SavedDocument(id, msgs) ==
    [ conversation_id |-> id,
      created_at |-> msgs[1].timestamp,
      messages |-> [ i \in 1..Len(msgs) |-> JsonOfMessage(msgs[i]) ] ]

\* a file that holds a whole document, and one that holds only the start of
\* the text of a document (upto of its messages; 0 right after open(.., 'w'))
FileJson(doc) == [kind |-> "json", doc |-> doc, upto |-> Len(doc.messages)]
FilePartial(doc, upto) == [kind |-> "partial", doc |-> doc, upto |-> upto]

\* ConversationManager.load_conversation on a parsed document
load_conversation_keeps_empty(doc) ==
    LET msgs == [ i \in 1..Len(doc.messages) |-> MessageOfJson(doc.messages[i]) ]
        kept == SelectSeq(msgs, LAMBDA m : m.role = "user" /\ m.emotions # None)
    IN  [ conversation_id |-> doc.conversation_id,
          messages |-> msgs,
          emotion_history |-> [ i \in 1..Len(kept) |-> kept[i].emotions ] ]

load_conversation(doc) ==
    LET msgs == [ i \in 1..Len(doc.messages) |-> MessageOfJson(doc.messages[i]) ]
        kept == SelectSeq(msgs, LAMBDA m : m.role = "user" /\ Truthy(m.emotions))
    IN  [ conversation_id |-> doc.conversation_id,
          messages |-> msgs,
          emotion_history |-> [ i \in 1..Len(kept) |-> kept[i].emotions ] ]

\* ConversationManager.get_conversation_history(max_messages); an integer
\* argument k is IntArg(k), so that it can be told from None
IntArg(k) == [tag |-> "int", val |-> k]

get_conversation_history(msgs, max_messages) ==
    IF max_messages = None THEN msgs
    ELSE SliceFrom(msgs, 0 - max_messages.val)

\* ---------------------------------------------------- PersonalityProfile
\* One profile per session. Trait scores and trait confidences are floats in
\* [0,1]; here they are integers in millionths (TraitOne is 1.0).
Sessions == {"s1", "s2"}

TraitOne == 1000 * 1000

TraitNames ==
    << "openness", "emotional_expressivity", "humor_appreciation",
       "support_seeking", "conversation_depth" >>

TraitSet == { TraitNames[i] : i \in DOMAIN TraitNames }

NegativeEmotions == <<"sadness", "fear", "anger", "disappointment", "shame">>

\* a new profile: every trait at the midpoint, every confidence at 0.1
PersonalityProfile ==
    [ traits |-> [ t \in TraitSet |-> TraitOne \div 2 ],
      confidence |-> [ t \in TraitSet |-> TraitOne \div 10 ],
      update_count |-> 0 ]

Clamp(x) == IF x < 0 THEN 0 ELSE IF x > TraitOne THEN TraitOne ELSE x

\* learning_rate * (c / 10) for learning_rate = min(0.1, 1.0 / n)
LearningStep(c, n) == Min((TraitOne * c) \div 100, (TraitOne * c) \div (10 * n))

RECURSIVE SumOver(_, _)
SumOver(labels, emotions) ==
    IF labels = << >> THEN 0
    ELSE DictGet(emotions, Head(labels), 0) + SumOver(Tail(labels), emotions)

\* the profile after update_from_emotion(record, engagement)
update_from_emotion_counts_changes(p, record, engagement) ==
    LET n == p.update_count + 1
        fires == [ t \in TraitSet |->
                     CASE t = "emotional_expressivity" -> record.confidence > Tenths(6)
                       [] t = "humor_appreciation" ->
                            DictGet(record.emotions, "amusement", 0) > Tenths(3)
                       [] t = "support_seeking" ->
                            SumOver(NegativeEmotions, record.emotions) > Tenths(4)
                       [] t = "conversation_depth" -> engagement > Tenths(7)
                       [] OTHER -> FALSE ]
        weight == [ t \in TraitSet |->
                      CASE t = "humor_appreciation" -> 3
                        [] t = "conversation_depth" -> 1
                        [] OTHER -> 2 ]
        changed == \E t \in TraitSet : fires[t]
    IN  [ traits |-> [ t \in TraitSet |->
                         Clamp(p.traits[t] +
                               IF fires[t] THEN LearningStep(weight[t], n) ELSE 0) ],
          confidence |-> p.confidence,
          update_count |-> IF changed THEN n ELSE p.update_count ]

update_from_emotion(p, record, engagement) ==
    LET n == p.update_count + 1
        fires == [ t \in TraitSet |->
                     CASE t = "emotional_expressivity" -> record.confidence > Tenths(6)
                       [] t = "humor_appreciation" ->
                            DictGet(record.emotions, "amusement", 0) > Tenths(3)
                       [] t = "support_seeking" ->
                            SumOver(NegativeEmotions, record.emotions) > Tenths(4)
                       [] t = "conversation_depth" -> engagement > Tenths(7)
                       [] OTHER -> FALSE ]
        weight == [ t \in TraitSet |->
                      CASE t = "humor_appreciation" -> 3
                        [] t = "conversation_depth" -> 1
                        [] OTHER -> 2 ]
    IN  [ traits |-> [ t \in TraitSet |->
                         Clamp(p.traits[t] +
                               IF fires[t] THEN LearningStep(weight[t], n) ELSE 0) ],
          confidence |-> p.confidence,
          update_count |-> n ]

\* ------------------------------------------------------------------- utils
\* What one invocation of a wrapped function does: it returns ("returns"),
\* raises an exception of the `exceptions` tuple ("raises"), or raises one
\* outside it ("raises_other").  A function is the sequence of what its
\* successive invocations do.  Outcome is the value returned, or the exception
\* raised, by the attempt-th invocation.
Outcome(kind, attempt) == [kind |-> kind, attempt |-> attempt]

\* the loop below with `except Exception` in place of `except exceptions`: it
\* retries whatever the function raises
RECURSIVE with_retry_loop_no_filter(_, _, _, _, _)
with_retry_loop_no_filter(max_retries, backoff_factor, func, retries, waits) ==
    LET attempt == retries + 1
    IN  IF func[attempt] = "returns"
        THEN [ invocations |-> attempt, waits |-> waits,
               value |-> Outcome("returns", attempt), raised |-> None ]
        ELSE IF retries + 1 > max_retries
        THEN [ invocations |-> attempt, waits |-> waits,
               value |-> None, raised |-> Outcome(func[attempt], attempt) ]
        ELSE with_retry_loop_no_filter(max_retries, backoff_factor, func, retries + 1,
                 Append(waits, Min(backoff_factor * 2 ^ retries, 2 * 60)))

with_retry_no_filter(max_retries, backoff_factor, func) ==
    with_retry_loop_no_filter(max_retries, backoff_factor, func, 0, << >>)

\* the wrapper of with_retry from the head of its while loop, lines 332-352,
\* with `retries` failed attempts behind it and the waits slept so far (in
\* clock ticks, as backoff_factor is)
RECURSIVE with_retry_loop(_, _, _, _, _)
with_retry_loop(max_retries, backoff_factor, func, retries, waits) ==
    LET attempt == retries + 1
    IN  IF func[attempt] = "returns"
        THEN [ invocations |-> attempt, waits |-> waits,
               value |-> Outcome("returns", attempt), raised |-> None ]
        ELSE IF func[attempt] = "raises_other"
        THEN [ invocations |-> attempt, waits |-> waits,
               value |-> None, raised |-> Outcome("raises_other", attempt) ]
        ELSE IF retries + 1 > max_retries
        THEN [ invocations |-> attempt, waits |-> waits,
               value |-> None, raised |-> Outcome("raises", attempt) ]
        ELSE with_retry_loop(max_retries, backoff_factor, func, retries + 1,
                 Append(waits, Min(backoff_factor * 2 ^ retries, 2 * 60)))

\* with_retry(max_retries, backoff_factor, exceptions)(func)(), max_retries >= 0:
\* how often func was invoked, the waits, and what the call returned or raised
with_retry(max_retries, backoff_factor, func) ==
    with_retry_loop(max_retries, backoff_factor, func, 0, << >>)

\* app.py:644-645: with_retry(max_retries=3, backoff_factor=0.5) around an
\* `async def`.  Calling the coroutine function only creates the coroutine and
\* raises nothing, whatever the body does once asyncio.run (lines 790-793)
\* runs it: for the wrapper every invocation returns.
process_user_input_call ==
    with_retry(3, 1, [ i \in 1..(3 + 1) |-> "returns" ])

\* ------------------------------------------------------------ optimization
\* CacheManager(max_size, ttl_seconds): cache and timestamps are dicts; order
\* lists their keys in insertion order. Times are clock ticks, two per second.
CacheManager(max_size, ttl_seconds) ==
    [ cache |-> << >>, timestamps |-> << >>, order |-> << >>,
      max_size |-> max_size, ttl_seconds |-> ttl_seconds ]

_is_expired(cm, key, t) ==
    IF key \notin DOMAIN cm.timestamps THEN TRUE
    ELSE t - cm.timestamps[key] > 2 * cm.ttl_seconds

\* cache.pop(key, None); timestamps.pop(key, None) for every key of gone
CachePop(cm, gone) ==
    [ cm EXCEPT !.cache = [ k \in DOMAIN cm.cache \ gone |-> cm.cache[k] ],
                !.timestamps = [ k \in DOMAIN cm.timestamps \ gone |-> cm.timestamps[k] ],
                !.order = SelectSeq(cm.order, LAMBDA k : k \notin gone) ]

_evict_expired(cm, t) ==
    CachePop(cm, { k \in DOMAIN cm.timestamps : t - cm.timestamps[k] > 2 * cm.ttl_seconds })

\* _evict_lru with max in place of min: the most recently used entry goes
_evict_lru_newest(cm) ==
    IF Cardinality(DOMAIN cm.cache) >= cm.max_size /\ cm.order # << >>
    THEN LET newest == CHOOSE i \in DOMAIN cm.order :
                         \A j \in DOMAIN cm.order :
                            cm.timestamps[cm.order[j]] <= cm.timestamps[cm.order[i]]
         IN  CachePop(cm, {cm.order[newest]})
    ELSE cm

_evict_lru(cm) ==
    IF Cardinality(DOMAIN cm.cache) >= cm.max_size /\ cm.order # << >>
    THEN LET oldest == CHOOSE i \in DOMAIN cm.order :
                         /\ \A j \in DOMAIN cm.order :
                              cm.timestamps[cm.order[i]] <= cm.timestamps[cm.order[j]]
                         /\ \A j \in 1..(i - 1) :
                              cm.timestamps[cm.order[i]] < cm.timestamps[cm.order[j]]
         IN  CachePop(cm, {cm.order[oldest]})
    ELSE cm

\* CacheManager.get(key) at time t: the manager afterwards and the value
CacheManager_get(cm, key, t) ==
    LET swept == _evict_expired(cm, t)
    IN  IF key \in DOMAIN swept.cache /\ ~_is_expired(swept, key, t)
        THEN [ cm |-> [swept EXCEPT !.timestamps[key] = t], value |-> swept.cache[key] ]
        ELSE [ cm |-> swept, value |-> None ]

\* the manager after CacheManager.set(key, value) at time t
CacheManager_set(cm, key, value, t) ==
    LET room == _evict_lru(_evict_expired(cm, t))
    IN  [ room EXCEPT
            !.cache = (key :> value) @@ room.cache,
            !.timestamps = (key :> t) @@ room.timestamps,
            !.order = IF key \in DOMAIN room.timestamps THEN room.order
                      ELSE Append(room.order, key) ]

\* the key cache_response builds for a call of func on an instance: the
\* function's name and str(args), which starts with the repr of the instance
CacheKey(func, instance, args) == <<func, instance, args>>

InsightsKey == <<"personality_insights">>

\* the insights precompute_personality_insights computes from a profile
PersonalityInsights(profile) ==
    LET ranked == FirstK(SortedByScoreDesc(TraitNames, profile.traits), 3)
    IN  [ dominant_traits |-> [ i \in DOMAIN ranked |-> <<ranked[i], profile.traits[ranked[i]]>> ],
          confidence_level |-> SumOver(TraitNames, profile.confidence) \div Len(TraitNames),
          interaction_count |-> profile.update_count ]

\* CacheManager.clear()
CacheManager_clear(cm) ==
    [cm EXCEPT !.cache = << >>, !.timestamps = << >>, !.order = << >>]

\* optimize_conversation_history(max_history) on base_manager.conversation_turns:
\* sorted by (timestamp, confidence) with reverse=True, cut to max_history.
\* The key of a turn is a pair; timestamp * 1000 + confidence orders like it,
\* confidences being at most Tenths(10).
optimize_conversation_history(turns, cap) ==
    IF Len(turns) > cap
    THEN LET key == [ i \in DOMAIN turns |->
                        turns[i].timestamp * 1000 + turns[i].emotion_result.confidence ]
             sorted_turns == SortedByScoreDesc([ i \in DOMAIN turns |-> i ], key)
             kept == FirstK(sorted_turns, cap)
         IN  [ i \in DOMAIN kept |-> turns[kept[i]] ]
    ELSE turns

\* BatchProcessor(batch_size, max_wait_time) created at time t; results maps
\* request ids to results
BatchProcessor(batch_size, max_wait_time, t) ==
    [ batch_size |-> batch_size, max_wait_time |-> max_wait_time,
      pending_requests |-> << >>, results |-> << >>, last_batch_time |-> t ]

\* BatchProcessor._process_batch() at time t
_process_batch(bp, t) ==
    IF bp.pending_requests = << >> THEN bp
    ELSE LET batch == bp.pending_requests
             ids == { batch[i][1] : i \in DOMAIN batch }
             last(id) == CHOOSE i \in DOMAIN batch :
                           /\ batch[i][1] = id
                           /\ \A j \in DOMAIN batch : batch[j][1] = id => j <= i
         IN  [ bp EXCEPT
                 !.pending_requests = << >>,
                 !.last_batch_time = t,
                 !.results = [ id \in DOMAIN bp.results \cup ids |->
                                 IF id \in ids THEN <<"Processed", batch[last(id)][2]>>
                                 ELSE bp.results[id] ] ]

\* lines 133-138 of add_request(request_id, request_data) at time t: the
\* request is queued, and the batch is processed if it is full or due
add_request(bp, request_id, request_data, t) ==
    LET queued == [ bp EXCEPT !.pending_requests =
                                 Append(bp.pending_requests, <<request_id, request_data>>) ]
    IN  IF \/ Len(queued.pending_requests) >= queued.batch_size
           \/ t - queued.last_batch_time >= 2 * queued.max_wait_time
        THEN _process_batch(queued, t)
        ELSE queued

\* the callers of add_request; each uses its own name as request id
Callers == {"c1", "c2", "c3"}

\* ------------------------------------------------------------------ state
InitHistoryVars ==
    /\ history = << >>
    /\ inserted = << >>

InitGeneratorVars ==
    /\ api_call = None

\* a new PersonalityProfile per session; optimization.py line 74: the module
\* creates its CacheManager() with the defaults of the constructor
InitSessionVars ==
    /\ personality_profile = [ s \in Sessions |-> PersonalityProfile ]
    /\ cache_manager = CacheManager(1000, 3600)
    /\ cache_writer = << >>

\* HumeEmotionAnalyzer(): no session yet (line 40), nothing to analyze
InitClassifierVars ==
    /\ user_text = {}
    /\ hume_session = FALSE
    /\ hume_response = [kind |-> "raises"]

\* nothing computed for the cache yet; BatchProcessor() of a manager with the
\* defaults of the constructor, and no caller in add_request
InitOptVars ==
    /\ computed_at = << >>
    /\ batch_processor = BatchProcessor(10, 1, 0)
    /\ callers = [ c \in Callers |-> "idle" ]

InitExtVars == InitSessionVars /\ InitClassifierVars /\ InitOptVars

\* ConversationManager(): no messages, an id generated from the clock
InitLedgerVars ==
    /\ now = 0
    /\ messages = << >>
    /\ conversation_id = GeneratedId(0)
    /\ emotion_history = << >>
    /\ files = << >>
    /\ last_saved = << >>
    /\ save_pc = "idle"
    /\ turn_pc = "idle"
    /\ turn_start = << >>

\* confidences 0.0, 0.05, ..., 1.0
Confidences == { 30 * k : k \in 0..20 }

EmotionResults ==
    { EmotionResult((d :> c), d, c, "test") : d \in PrimaryEmotionSet, c \in Confidences }

\* the arguments the callers of the ledger pass
Roles == ValidRoles \cup {"invalid"}
Contents == {"hello"}
EmotionArgs == { None, << >>, ("joy" :> Tenths(8)) @@ ("sadness" :> Tenths(1)) }

Conv == [messages |-> messages, emotion_history |-> emotion_history]

\* ------------------------------------------------- EmotionHistory actions
AddEmotion ==
    /\ Len(inserted) < MaxAdds
    /\ \E e \in SampleEmotions :
         LET r == EmotionResult(e, DominantOf(e), e[DominantOf(e)], Len(inserted) + 1)
         IN  /\ history' = add_emotion(history, max_history, r)
             /\ inserted' = Append(inserted, r)
             /\ ret' = Return("add_emotion", r, None)
    /\ UNCHANGED <<max_history, extVars, genVars, ledgerVars, now, fsVars, turnVars>>

GetEmotionTrend ==
    /\ ret' = Return("get_emotion_trend", << >>, get_emotion_trend(history))
    /\ UNCHANGED <<histVars, extVars, genVars, ledgerVars, now, fsVars, turnVars>>

InitHistory ==
    /\ max_history \in 1..MaxCapacity
    /\ InitHistoryVars
    /\ InitGeneratorVars
    /\ InitLedgerVars
    /\ InitExtVars
    /\ emotion_result = None
    /\ ret = NoCall

NextHistory == AddEmotion \/ GetEmotionTrend

SpecHistory == InitHistory /\ [][NextHistory]_vars

\* ------------------------------------------------------ generator actions
\* _determine_response_strategy called on its own, as the test suite does
DetermineResponseStrategy ==
    /\ emotion_result # None
    /\ ret' = Return("_determine_response_strategy", emotion_result,
                     _determine_response_strategy(emotion_result))
    /\ UNCHANGED <<histVars, extVars, genVars, ledgerVars, now, fsVars, turnVars>>

\* generate_response(context), lines 82-116: strategy, then the request to the
\* generation collaborator at the strategy's temperature; the collaborator
\* answers or fails. (The class defines generate_response a second time at
\* lines 249-291, and that later definition is the one the name is bound to.)
GenerateResponse1 ==
    /\ emotion_result # None
    /\ LET strategy == _determine_response_strategy(emotion_result)
       IN  /\ api_call' = [ temperature |-> _get_temperature_for_strategy(strategy),
                            max_tokens |-> 200 ]
           /\ \E ok \in BOOLEAN :
                ret' = Return("generate_response", emotion_result,
                              IF ok THEN "generated"
                              ELSE _fallback_response(emotion_result))
    /\ UNCHANGED <<histVars, extVars, emotion_result, ledgerVars, now, fsVars, turnVars>>

InitStrategy ==
    /\ max_history = 10
    /\ InitHistoryVars
    /\ InitGeneratorVars
    /\ InitLedgerVars
    /\ InitExtVars
    /\ emotion_result \in EmotionResults
    /\ ret = NoCall

NextStrategy == DetermineResponseStrategy \/ GenerateResponse1

SpecStrategy == InitStrategy /\ [][NextStrategy]_vars

\* ---------------------------------------------------------- ledger actions
\* the wall clock advances
Tick ==
    /\ now < MaxTime
    /\ now' = now + 1
    /\ UNCHANGED <<histVars, extVars, genVars, ledgerVars, fsVars, turnVars, ret>>

\* a caller invokes add_message(role, content, emotions)
AddMessage ==
    /\ turn_pc = "idle" /\ save_pc = "idle"
    /\ \E role \in Roles, content \in Contents, emotions \in EmotionArgs :
         LET args == [role |-> role, content |-> content, emotions |-> emotions]
             out == add_message(Conv, role, content, emotions, now)
         IN  /\ out.raised = "" => Len(messages) < MaxMessages
             /\ messages' = out.messages
             /\ emotion_history' = out.emotion_history
             /\ ret' = IF out.raised = "" THEN Return("add_message", args, None)
                       ELSE Raise("add_message", args, out.raised)
    /\ UNCHANGED <<histVars, extVars, genVars, conversation_id, now, fsVars, turnVars>>

\* save_conversation, lines 87-92: refuse an empty ledger, else open the file
\* for writing, which empties it
SaveOpen ==
    /\ save_pc = "idle"
    /\ turn_pc \in {"idle", "saving"}
    /\ IF messages = << >>
       THEN /\ ret' = Raise("save_conversation", << >>, "ValueError")
            /\ UNCHANGED fsVars
       ELSE /\ files' = (PathOf(conversation_id) :>
                           FilePartial(SavedDocument(conversation_id, messages), 0))
                        @@ files
            /\ save_pc' = "writing"
            /\ ret' = Return("open", PathOf(conversation_id), None)
            /\ UNCHANGED last_saved
    /\ UNCHANGED <<histVars, extVars, genVars, ledgerVars, now, turnVars>>

\* save_conversation, lines 93-99: json.dump wrote the whole document, the file
\* is closed and the path returned; inside a turn the turn is then over
SaveComplete ==
    /\ save_pc = "writing"
    /\ LET path == PathOf(conversation_id)
           doc == SavedDocument(conversation_id, messages)
       IN  /\ files' = (path :> FileJson(doc)) @@ files
           /\ last_saved' = (path :> doc) @@ last_saved
           /\ ret' = IF turn_pc = "saving"
                     THEN Return("process_user_input", process_user_input_call, None)
                     ELSE Return("save_conversation", << >>, path)
    /\ save_pc' = "idle"
    /\ turn_pc' = "idle"
    /\ UNCHANGED <<histVars, extVars, genVars, ledgerVars, now, turn_start>>

\* save_conversation, lines 92-97: the write fails part-way (OSError, or the
\* process is stopped); the file keeps what had reached it. Inside a turn the
\* error is caught and logged (app.py lines 684-688)
SaveInterrupted ==
    /\ save_pc = "writing"
    /\ \E k \in 0..(Len(messages) - 1) :
         files' = (PathOf(conversation_id) :>
                     FilePartial(SavedDocument(conversation_id, messages), k))
                  @@ files
    /\ ret' = IF turn_pc = "saving"
              THEN Return("process_user_input", process_user_input_call, None)
              ELSE Raise("save_conversation", << >>, "OSError")
    /\ save_pc' = "idle"
    /\ turn_pc' = "idle"
    /\ UNCHANGED <<histVars, extVars, genVars, ledgerVars, now, last_saved, turn_start>>

\* ConversationManager.load_conversation(filepath), by this session or by any
\* other reader of the directory, at any moment
LoadConversation ==
    /\ \E path \in DOMAIN files \cup {PathOf(conversation_id)} :
         IF path \notin DOMAIN files
         THEN ret' = Raise("load_conversation", path, "FileNotFoundError")
         ELSE IF files[path].kind # "json"
         THEN ret' = Raise("load_conversation", path, "JSONDecodeError")
         ELSE ret' = Return("load_conversation", path,
                            load_conversation(files[path].doc))
    /\ UNCHANGED <<histVars, extVars, genVars, ledgerVars, now, fsVars, turnVars>>

\* ConversationManager.clear
Clear ==
    /\ turn_pc = "idle" /\ save_pc = "idle"
    /\ messages' = << >>
    /\ emotion_history' = << >>
    /\ conversation_id' = GeneratedId(now)
    /\ ret' = Return("clear", << >>, None)
    /\ UNCHANGED <<histVars, extVars, genVars, now, fsVars, turnVars>>

InitLedger ==
    /\ max_history = 10
    /\ InitHistoryVars
    /\ InitGeneratorVars
    /\ InitLedgerVars
    /\ InitExtVars
    /\ emotion_result = None
    /\ ret = NoCall

NextLedger ==
    \/ Tick
    \/ AddMessage
    \/ SaveOpen
    \/ SaveComplete
    \/ SaveInterrupted
    \/ LoadConversation

SpecLedger == InitLedger /\ [][NextLedger]_vars

\* ------------------------------------------------- app.py: one session
\* what the two collaborators of a turn hand back when they do not fail
ExtractedEmotions == EmotionArgs \ {None}
Responses == {"reply"}

\* process_user_input, lines 648-653: the user message is added, without
\* emotions, before anything else
ProcessStart ==
    /\ turn_pc = "idle" /\ save_pc = "idle"
    /\ Len(messages) + 2 <= 2 * MaxTurns
    /\ \E user_input \in Contents :
         LET out == add_message(Conv, "user", user_input, None, now)
         IN  /\ messages' = out.messages
             /\ emotion_history' = out.emotion_history
             /\ ret' = Return("add_message",
                              [role |-> "user", content |-> user_input,
                               emotions |-> None], None)
    /\ turn_start' = messages
    /\ turn_pc' = "analyzing"
    /\ UNCHANGED <<histVars, extVars, genVars, conversation_id, now, fsVars>>

\* lines 655-661: the classifier call returned; the emotions are written into
\* the last message
AnalyzeReturns ==
    /\ turn_pc = "analyzing"
    /\ \E emotions \in ExtractedEmotions :
         messages' = [messages EXCEPT ![Len(messages)].emotions = emotions]
    /\ turn_pc' = "generating"
    /\ UNCHANGED <<histVars, extVars, genVars, conversation_id, emotion_history, now,
                   fsVars, turn_start, ret>>

\* lines 655-657 and 690-693: the classifier call raised; the error is shown
\* and raised again
AnalyzeRaises ==
    /\ turn_pc = "analyzing"
    /\ turn_pc' = "idle"
    /\ ret' = Raise("process_user_input", process_user_input_call, "Exception")
    /\ UNCHANGED <<histVars, extVars, genVars, ledgerVars, now, fsVars, turn_start>>

\* lines 663-681: the generator call returned; the assistant message is added
GenerateReturns ==
    /\ turn_pc = "generating"
    /\ \E response \in Responses :
         LET out == add_message(Conv, "assistant", response, None, now)
         IN  /\ messages' = out.messages
             /\ emotion_history' = out.emotion_history
             /\ ret' = Return("add_message",
                              [role |-> "assistant", content |-> response,
                               emotions |-> None], None)
    /\ turn_pc' = "saving"
    /\ UNCHANGED <<histVars, extVars, genVars, conversation_id, now, fsVars, turn_start>>

\* lines 668-674 and 690-693: the generator call raised
GenerateRaises ==
    /\ turn_pc = "generating"
    /\ turn_pc' = "idle"
    /\ ret' = Raise("process_user_input", process_user_input_call, "Exception")
    /\ UNCHANGED <<histVars, extVars, genVars, ledgerVars, now, fsVars, turn_start>>

\* lines 683-688: the turn saves the conversation
TurnSaveOpen == turn_pc = "saving" /\ SaveOpen

\* render_sidebar, lines 580-582: "New Conversation" replaces the ledger by a
\* new ConversationManager()
NewConversation ==
    /\ turn_pc = "idle" /\ save_pc = "idle"
    /\ messages' = << >>
    /\ emotion_history' = << >>
    /\ conversation_id' = GeneratedId(now)
    /\ ret' = Return("ConversationManager", << >>, None)
    /\ UNCHANGED <<histVars, extVars, genVars, now, fsVars, turnVars>>

Init == InitLedger

Next ==
    \/ Tick
    \/ ProcessStart
    \/ AnalyzeReturns
    \/ AnalyzeRaises
    \/ GenerateReturns
    \/ GenerateRaises
    \/ TurnSaveOpen
    \/ SaveComplete
    \/ SaveInterrupted

Spec == Init /\ [][Next]_vars

\* the ledger's life cycle without the file system (with saves as well, every
\* new conversation multiplies the directory's contents)
NextLifecycle == Tick \/ AddMessage \/ Clear \/ NewConversation

SpecLifecycle == InitLedger /\ [][NextLifecycle]_vars

\* the values callers pass for max_messages
MaxMessagesArgs == {None} \cup { IntArg(k) : k \in 0..(MaxMessages + 1) }

\* a caller invokes get_conversation_history(max_messages)
GetConversationHistory ==
    /\ turn_pc = "idle" /\ save_pc = "idle"
    /\ \E max_messages \in MaxMessagesArgs :
         ret' = Return("get_conversation_history", max_messages,
                       get_conversation_history(messages, max_messages))
    /\ UNCHANGED <<histVars, extVars, genVars, ledgerVars, now, fsVars, turnVars>>

\* the ledger and its readers
NextRead == Tick \/ AddMessage \/ GetConversationHistory

SpecRead == InitLedger /\ [][NextRead]_vars

\* ------------------------------------- the two collaborators of a turn
\* the texts analyzed: the keywords of the table they contain
SampleKeywords ==
    {"happy", "joy", "excited", "great", "awesome", "unhappy", "sad", "funny"}

Texts == { w \in SUBSET SampleKeywords : Cardinality(w) <= MaxKeywords /\ IsText(w) }

\* what the classifier answers: emotion names as it spells them, one of them
\* outside the vocabulary, and scores
PredictionNames == {"joy", "Sadness", "anger", "boredom"}
PredictionScores == {Tenths(5), Tenths(8)}
Predictions == [name : PredictionNames, score : PredictionScores]
PredictionSeqs == UNION { [1..n -> Predictions] : n \in 0..MaxPredictions }

Bodies ==
    { [shape |-> sh, predictions |-> << >>] :
        sh \in {"invalid_json", "bad_structure", "no_predictions", "unorderable_scores"} }
    \cup { [shape |-> "predictions", predictions |-> ps] : ps \in PredictionSeqs }

HumeResponses ==
    { [kind |-> "raises"] }
    \cup { [kind |-> "status", status_code |-> 500,
            body |-> [shape |-> "invalid_json", predictions |-> << >>]] }
    \cup { [kind |-> "status", status_code |-> 200, body |-> b] : b \in Bodies }

\* what the generation collaborator does when it is called
Completions == { [ok |-> TRUE, text |-> "reply"], [ok |-> FALSE, text |-> ""] }

InitCollaborators ==
    /\ max_history = 10
    /\ InitHistoryVars
    /\ InitGeneratorVars
    /\ InitLedgerVars
    /\ InitOptVars
    /\ InitSessionVars
    /\ user_text \in Texts
    /\ hume_session \in BOOLEAN
    /\ hume_response \in HumeResponses
    /\ ~hume_session => hume_response = [kind |-> "raises"]
    /\ emotion_result = None
    /\ ret = NoCall

\* HumeEmotionAnalyzer.analyze_emotion(text)
AnalyzeEmotion ==
    /\ LET out == analyze_emotion(user_text, hume_session, hume_response)
       IN  IF out.raised = ""
           THEN /\ ret' = Return("analyze_emotion", user_text, out.value)
                /\ emotion_result' = out.value
           ELSE /\ ret' = Raise("analyze_emotion", user_text, out.raised)
                /\ UNCHANGED emotion_result
    /\ UNCHANGED <<histVars, extVars, api_call, ledgerVars, now, fsVars, turnVars>>

\* EmotionAwareResponseGenerator.generate_response(messages, emotion_context,
\* temperature, max_tokens) for the record of the turn, with the defaults of
\* the parameters; the request goes out only if the prompt could be built
GenerateResponse ==
    /\ emotion_result # None
    /\ \E completion \in Completions :
         LET args == [emotion_result |-> emotion_result, completion |-> completion]
             out == generate_response(<< >>, emotion_result.emotions, Tenths(7),
                                      1000, completion)
         IN  ret' = IF out.raised = "" THEN Return("generate_response", args, out.value)
                    ELSE Raise("generate_response", args, out.raised)
    /\ api_call' = IF CallBuildSystemPrompt(<<emotion_result.emotions>>).raised = ""
                   THEN [temperature |-> Tenths(7), max_tokens |-> 1000]
                   ELSE api_call
    /\ UNCHANGED <<histVars, extVars, emotion_result, ledgerVars, now, fsVars, turnVars>>

NextCollaborators == AnalyzeEmotion \/ GenerateResponse

SpecCollaborators == InitCollaborators /\ [][NextCollaborators]_vars

\* --------------------------------------------------- prompt construction
\* the i-th earlier exchange of a conversation
Exchange(i) == [user |-> <<"user says", i>>, bot |-> <<"bot says", i>>]

\* trends as get_emotion_trend hands them over: dicts in any key order
TrendLabels == {"anger", "fear", "joy", "sadness"}
TrendScores == {Tenths(2), Tenths(5)}
TrendOrders ==
    { o \in UNION { [1..n -> TrendLabels] : n \in 0..Cardinality(TrendLabels) } :
        \A i, j \in DOMAIN o : i # j => o[i] # o[j] }
Trends ==
    UNION { { OrderedDict(o, v) : v \in [ { o[i] : i \in DOMAIN o } -> TrendScores ] } :
            o \in TrendOrders }

BuildMessageHistory ==
    /\ \E n \in 0..MaxExchanges :
         LET context == ConversationContext(
                          <<"user says", n + 1>>,
                          EmotionResult(("joy" :> Tenths(8)), "joy", Tenths(8), "test"),
                          [ i \in 1..n |-> Exchange(i) ],
                          OrderedDict(<< >>, << >>))
             system_prompt == _build_system_prompt("amplify_positive", context)
         IN  ret' = Return("_build_message_history", context,
                           _build_message_history(context, system_prompt))
    /\ UNCHANGED <<histVars, extVars, genVars, ledgerVars, now, fsVars, turnVars>>

FormatEmotionTrend ==
    /\ \E emotion_trend \in Trends :
         ret' = Return("_format_emotion_trend", emotion_trend,
                       _format_emotion_trend(emotion_trend))
    /\ UNCHANGED <<histVars, extVars, genVars, ledgerVars, now, fsVars, turnVars>>

NextPrompt == BuildMessageHistory \/ FormatEmotionTrend

SpecPrompt == InitLedger /\ [][NextPrompt]_vars

\* ------------------------------------------------- personality estimator
\* records that make every combination of the three record thresholds fire
ProfileEmotions ==
    { ("joy" :> Tenths(8)),
      ("joy" :> Tenths(5)),
      ("joy" :> Tenths(8)) @@ ("amusement" :> Tenths(5)),
      ("amusement" :> Tenths(5)),
      ("sadness" :> Tenths(3)) @@ ("fear" :> Tenths(2)),
      ("sadness" :> Tenths(8)),
      ("amusement" :> Tenths(5)) @@ ("sadness" :> Tenths(3)) @@ ("fear" :> Tenths(2)),
      ("amusement" :> Tenths(8)) @@ ("sadness" :> Tenths(5)) }

ProfileRecords ==
    { EmotionResult(e, DominantOf(e), e[DominantOf(e)], "test") : e \in ProfileEmotions }

\* engagement: the neutral default, and a deep engagement
Engagements == {Tenths(5), Tenths(9)}

\* the profile after k updates in each of which every threshold fired
RECURSIVE Warmed(_)
Warmed(k) ==
    IF k = 0 THEN PersonalityProfile
    ELSE update_from_emotion(
           Warmed(k - 1),
           EmotionResult(("amusement" :> Tenths(8)) @@ ("sadness" :> Tenths(5)),
                         "amusement", Tenths(8), "test"),
           Tenths(9))

\* a session's profile is new, or has been through WarmUpdates updates
InitPersonality ==
    /\ max_history = 10
    /\ InitHistoryVars
    /\ InitGeneratorVars
    /\ InitLedgerVars
    /\ InitOptVars
    /\ InitClassifierVars
    /\ \E p \in {PersonalityProfile, Warmed(WarmUpdates)} :
         personality_profile = [ s \in Sessions |-> IF s = "s1" THEN p ELSE PersonalityProfile ]
    /\ cache_manager = CacheManager(1000, 3600)
    /\ cache_writer = << >>
    /\ emotion_result = None
    /\ ret = NoCall

\* the manager of session s updates its profile from the record of a turn;
\* explored are the first MaxUpdates updates of a new profile and of a warmed one
UpdateFromEmotion(s) ==
    /\ \/ personality_profile[s].update_count < MaxUpdates
       \/ /\ personality_profile[s].update_count >= WarmUpdates
          /\ personality_profile[s].update_count < WarmUpdates + MaxUpdates
    /\ \E record \in ProfileRecords, engagement \in Engagements :
         /\ personality_profile' =
              [ personality_profile EXCEPT
                  ![s] = update_from_emotion(@, record, engagement) ]
         /\ ret' = Return("update_from_emotion",
                          [session |-> s, record |-> record, engagement |-> engagement],
                          None)
    /\ UNCHANGED <<histVars, cache_manager, cache_writer, user_text, hume_session,
                   hume_response, optVars, genVars, ledgerVars, now, fsVars, turnVars>>

NextPersonality == UpdateFromEmotion("s1")

SpecPersonality == InitPersonality /\ [][NextPersonality]_vars

\* ------------------------------------- sessions of one server process
\* Every session has its own managers and profile; optimization.cache_manager
\* is one object of the module, used by the managers of every session.
InitSessions ==
    /\ max_history = 10
    /\ InitHistoryVars
    /\ InitGeneratorVars
    /\ InitLedgerVars
    /\ InitOptVars
    /\ InitClassifierVars
    /\ personality_profile \in [ Sessions -> {PersonalityProfile, Warmed(WarmUpdates)} ]
    /\ cache_manager = CacheManager(1000, 3600)
    /\ cache_writer = << >>
    /\ emotion_result = None
    /\ ret = NoCall

\* OptimizedConversationManager.precompute_personality_insights of session s
PrecomputePersonalityInsights(s) ==
    /\ LET insights == PersonalityInsights(personality_profile[s])
       IN  /\ cache_manager' = CacheManager_set(cache_manager, InsightsKey, insights, now)
           /\ ret' = Return("precompute_personality_insights", [session |-> s], insights)
    /\ cache_writer' = (InsightsKey :> s) @@ cache_writer
    /\ UNCHANGED <<histVars, personality_profile, user_text, hume_session,
                   hume_response, optVars, genVars, ledgerVars, now, fsVars, turnVars>>

\* session s reads the precomputed insights: cache_manager.get('personality_insights')
GetPersonalityInsights(s) ==
    /\ LET got == CacheManager_get(cache_manager, InsightsKey, now)
       IN  /\ cache_manager' = got.cm
           /\ ret' = Return("cache_manager.get",
                            [session |-> s, key |-> InsightsKey], got.value)
    /\ UNCHANGED <<histVars, personality_profile, cache_writer, user_text, hume_session,
                   hume_response, optVars, genVars, ledgerVars, now, fsVars, turnVars>>

\* get_similar_conversations(current_emotion, confidence) of the manager of
\* session s, through the wrapper of cache_response: a hit returns the cached
\* value, a miss runs the function (it returns []) and stores the result
GetSimilarConversations(s) ==
    /\ \E current_emotion \in {"joy"} :
         LET key == CacheKey("get_similar_conversations", s, <<current_emotion, Tenths(8)>>)
             got == CacheManager_get(cache_manager, key, now)
             hit == got.value # None
         IN  /\ cache_manager' = IF hit THEN got.cm
                                 ELSE CacheManager_set(got.cm, key, << >>, now)
             /\ cache_writer' = IF hit THEN cache_writer ELSE (key :> s) @@ cache_writer
             /\ computed_at' = IF hit THEN computed_at ELSE (key :> now) @@ computed_at
             /\ ret' = Return("get_similar_conversations",
                              [session |-> s, key |-> key, hit |-> hit],
                              IF hit THEN got.value ELSE << >>)
    /\ UNCHANGED <<histVars, personality_profile, user_text, hume_session,
                   hume_response, batch_processor, callers, genVars, ledgerVars, now, fsVars, turnVars>>

NextSessions ==
    \/ Tick
    \/ \E s \in Sessions :
         \/ PrecomputePersonalityInsights(s)
         \/ GetPersonalityInsights(s)
         \/ GetSimilarConversations(s)

SpecSessions == InitSessions /\ [][NextSessions]_vars

\* ------------------------------------ the retry wrapper and the turn list
\* a caller invokes optimize_conversation_history(max_history) on a manager
\* whose base manager has conversation_turns (one call per behaviour); turn i
\* was made at time i, with any confidence
OptimizeConversationHistory ==
    /\ ret = NoCall
    /\ \E confidences \in UNION { [ 1..n -> {Tenths(3), Tenths(9)} ] : n \in 0..MaxTurnList },
          cap \in 1..MaxTurnList :
         LET turns == [ i \in DOMAIN confidences |->
                          [ timestamp |-> i,
                            emotion_result |-> [confidence |-> confidences[i]] ] ]
         IN  ret' = Return("optimize_conversation_history",
                           [conversation_turns |-> turns, max_history |-> cap],
                           optimize_conversation_history(turns, cap))
    /\ UNCHANGED <<histVars, extVars, genVars, ledgerVars, now, fsVars, turnVars>>

\* a caller invokes a function wrapped by with_retry (one call per
\* behaviour); backoff factors of 0, 0.5 and 32 seconds
WithRetry ==
    /\ ret = NoCall
    /\ \E max_retries \in 0..MaxRetries, backoff_factor \in {0, 1, 64},
          func \in [ 1..(MaxRetries + 2) -> {"returns", "raises", "raises_other"} ] :
         ret' = Return("with_retry",
                       [ max_retries |-> max_retries,
                         backoff_factor |-> backoff_factor, func |-> func ],
                       with_retry(max_retries, backoff_factor, func))
    /\ UNCHANGED <<histVars, extVars, genVars, ledgerVars, now, fsVars, turnVars>>

SpecUtilities == InitLedger /\ [][OptimizeConversationHistory \/ WithRetry]_vars

\* ------------------------------------------------------- one CacheManager
CacheKeys == {"k1", "k2", "k3"}

\* a CacheManager(max_size, ttl_seconds=1) and nothing else going on
InitCache ==
    /\ max_history = 10
    /\ InitHistoryVars
    /\ InitGeneratorVars
    /\ InitLedgerVars
    /\ InitOptVars
    /\ InitClassifierVars
    /\ personality_profile = [ s \in Sessions |-> PersonalityProfile ]
    /\ cache_manager \in { CacheManager(max_size, 1) : max_size \in 1..MaxCacheSize }
    /\ cache_writer = << >>
    /\ emotion_result = None
    /\ ret = NoCall

\* time.time() moves on by d ticks, up to a limit
Elapse(d, limit) ==
    /\ now + d <= limit
    /\ now' = now + d
    /\ UNCHANGED <<histVars, extVars, genVars, ledgerVars, fsVars, turnVars, ret>>

\* a caller invokes get(key)
CacheGet ==
    /\ \E key \in CacheKeys :
         LET got == CacheManager_get(cache_manager, key, now)
         IN  /\ cache_manager' = got.cm
             /\ ret' = Return("CacheManager.get", [key |-> key, at |-> now], got.value)
    /\ UNCHANGED <<histVars, personality_profile, cache_writer, user_text, hume_session,
                   hume_response, optVars, genVars, ledgerVars, now, fsVars, turnVars>>

\* a caller invokes set(key, value); the value says when it was made
CacheSet ==
    /\ \E key \in CacheKeys :
         LET value == [made_at |-> now]
         IN  /\ cache_manager' = CacheManager_set(cache_manager, key, value, now)
             /\ ret' = Return("CacheManager.set",
                              [key |-> key, value |-> value, at |-> now], None)
    /\ UNCHANGED <<histVars, personality_profile, cache_writer, user_text, hume_session,
                   hume_response, optVars, genVars, ledgerVars, now, fsVars, turnVars>>

\* a caller invokes clear()
CacheClear ==
    /\ cache_manager' = CacheManager_clear(cache_manager)
    /\ ret' = Return("CacheManager.clear", [at |-> now], None)
    /\ UNCHANGED <<histVars, personality_profile, cache_writer, user_text, hume_session,
                   hume_response, optVars, genVars, ledgerVars, now, fsVars, turnVars>>

SpecCache ==
    InitCache /\ [][Elapse(1, MaxCacheTime) \/ CacheGet \/ CacheSet \/ CacheClear]_vars

\* the cached call over hours: between calls 15 or 31 minutes pass
SpecCachedCalls ==
    InitSessions
    /\ [][ \/ \E minutes \in {15, 31} : Elapse(2 * 60 * minutes, 2 * MaxElapsed)
           \/ \E s \in Sessions : GetSimilarConversations(s) ]_vars

\* ----------------------------------------------------- one BatchProcessor
\* BatchProcessor(batch_size) of a manager, created at time 0; the constructor's
\* default size, and a size three callers can fill
InitBatch ==
    /\ max_history = 10
    /\ InitHistoryVars
    /\ InitGeneratorVars
    /\ InitLedgerVars
    /\ InitSessionVars
    /\ InitClassifierVars
    /\ computed_at = << >>
    /\ batch_processor \in { BatchProcessor(batch_size, 1, 0) : batch_size \in {2, 10} }
    /\ callers = [ c \in Callers |-> "idle" ]
    /\ emotion_result = None
    /\ ret = NoCall

\* caller c invokes add_request(c, "d"), lines 133-141: up to the first
\* asyncio.sleep nothing else runs; the loop is not entered if the batch just
\* processed holds the result, and lines 144-145 follow at once
AddRequest(c) ==
    /\ callers[c] = "idle"
    /\ LET added == add_request(batch_processor, c, "d", now)
       IN  IF c \in DOMAIN added.results
           THEN /\ batch_processor' =
                     [ added EXCEPT !.results = [ id \in DOMAIN added.results \ {c} |->
                                                    added.results[id] ] ]
                /\ ret' = Return("add_request", [request_id |-> c], added.results[c])
                /\ callers' = [callers EXCEPT ![c] = "returned"]
           ELSE /\ batch_processor' = added
                /\ ret' = ret
                /\ callers' = [callers EXCEPT ![c] = "waiting"]
    /\ UNCHANGED <<histVars, personality_profile, cache_manager, cache_writer, user_text,
                   hume_session, hume_response, computed_at, genVars, ledgerVars, now,
                   fsVars, turnVars>>

\* caller c wakes from asyncio.sleep(0.01), lines 141-145, and finds its
\* result (if it does not, it sleeps again and nothing changes)
ReturnResult(c) ==
    /\ callers[c] = "waiting"
    /\ c \in DOMAIN batch_processor.results
    /\ batch_processor' =
         [ batch_processor EXCEPT
             !.results = [ id \in DOMAIN batch_processor.results \ {c} |->
                             batch_processor.results[id] ] ]
    /\ ret' = Return("add_request", [request_id |-> c], batch_processor.results[c])
    /\ callers' = [callers EXCEPT ![c] = "returned"]
    /\ UNCHANGED <<histVars, personality_profile, cache_manager, cache_writer, user_text,
                   hume_session, hume_response, computed_at, genVars, ledgerVars, now,
                   fsVars, turnVars>>

\* the event loop runs every coroutine that can run, and time passes;
\* nothing obliges a further caller to arrive
SpecBatch ==
    /\ InitBatch
    /\ [][ \/ Elapse(1, MaxBatchTime)
           \/ \E c \in Callers : AddRequest(c) \/ ReturnResult(c) ]_vars
    /\ WF_vars(Elapse(1, MaxBatchTime))
    /\ \A c \in Callers : WF_vars(ReturnResult(c))

\* ------------------------------------------------------------ properties

\* C1 (as claimed): no turn is half-recorded; when the classifier or the
\* generator call of a turn fails, the ledger holds exactly the messages it
\* held before the turn started.
C1_FailedTurnLeavesLedgerUnchanged ==
    (turn_pc = "idle" /\ ret.op = "process_user_input" /\ ret.raised # "") =>
        messages = turn_start

\* C2: after every add_emotion call, len(history) <= max_history and history
\* is the last max_history inserted records in insertion order.
C2_HistoryIsLastInserted ==
    /\ Len(history) <= max_history
    /\ Len(history) = Min(max_history, Len(inserted))
    /\ \A i \in 1..Len(history) :
         history[i] = inserted[Len(inserted) - Len(history) + i]

C2_Witness ==
    /\ ret.op = "add_emotion"
    /\ max_history >= 2
    /\ Len(inserted) >= max_history + 2
    /\ Len(history) = max_history

\* the table row a record falls in, read off the strategy table of the
\* specification: trigger set contains the dominant emotion, threshold met
TableRows(r) ==
    { i \in DOMAIN _default_strategies :
        /\ r.dominant_emotion \in _default_strategies[i].emotions
        /\ r.confidence >= _default_strategies[i].threshold }

TableTemperature(tag) ==
    CASE tag = "amplify_positive" -> Tenths(8)
      [] tag = "gentle_encouragement" -> Tenths(6)
      [] tag = "empathetic_support" -> Tenths(4)
      [] tag = "balanced_engagement" -> Tenths(7)

\* C3 (as claimed): strategy selection returns the strategy tag (approach) of
\* the table row whose trigger set contains the dominant emotion when the
\* confidence meets the row's threshold.
C3_SelectionReturnsStrategyTag ==
    ret.op = "_determine_response_strategy" =>
        \A i \in TableRows(emotion_result) :
            ret.value = _default_strategies[i].approach

\* C4 (as claimed): the generation call is made at the table temperature of
\* the strategy selected for the record.
C4_TemperatureOfSelectedStrategy ==
    api_call # None =>
        \A i \in TableRows(emotion_result) :
            api_call.temperature = TableTemperature(_default_strategies[i].approach)

\* C5: when no table row matches the record, selection returns
\* 'balanced_engagement' and the generation call is made at temperature 0.7.
C5_DefaultIsBalancedEngagement ==
    TableRows(emotion_result) = {} =>
        /\ ret.op = "_determine_response_strategy" => ret.value = "balanced_engagement"
        /\ api_call # None => api_call.temperature = Tenths(7)

C5_Witness ==
    /\ ret.op = "_determine_response_strategy"
    /\ ret.value = "balanced_engagement"
    /\ emotion_result.dominant_emotion = "joy"
    /\ emotion_result.confidence = Tenths(5)
    /\ api_call # None
    /\ api_call.temperature = Tenths(7)

\* the sum of label l's scores over the records of recent, a record without
\* the label counting as 0
RECURSIVE ScoreSum(_, _)
ScoreSum(recent, l) ==
    IF recent = << >> THEN 0
    ELSE DictGet(Head(recent).emotions, l, 0) + ScoreSum(Tail(recent), l)

\* C6: get_emotion_trend returns the empty mapping on an empty history, else
\* the per-label arithmetic mean over the last min(5, len(history)) records (an
\* absent label counting as 0), which on a one-record history is that record's
\* mapping; and it leaves the history unchanged.
C6_TrendIsMeanOfRecent ==
    [][ ret'.op = "get_emotion_trend" =>
          LET n == Min(5, Len(history))
              recent == SubSeq(history, Len(history) - n + 1, Len(history))
              labels == UNION { DOMAIN recent[i].emotions : i \in 1..n }
              trend == ret'.value
          IN  /\ history' = history
              /\ DOMAIN trend = labels
              /\ \A l \in labels : trend[l] * n = ScoreSum(recent, l)
              /\ Len(history) = 0 => trend = << >>
              /\ Len(history) = 1 => trend = history[1].emotions ]_vars

C6_Witness ==
    /\ ret.op = "get_emotion_trend"
    /\ Len(history) = 6
    /\ "joy" \in DOMAIN ret.value
    /\ ret.value["joy"] > 0
    /\ "joy" \notin DOMAIN history[6].emotions
    /\ "joy" \in DOMAIN history[1].emotions
    /\ "joy" \notin DOMAIN history[2].emotions

\* C7: a load_conversation on the path a save_conversation has just returned
\* yields a manager with the same conversation_id, the same ordered messages
\* and an emotion_history equal to the saved ledger's.
C7_SaveLoadRoundTrip ==
    [][ ( /\ ret.op = "save_conversation" /\ ret.raised = ""
          /\ ret'.op = "load_conversation" /\ ret'.args = ret.value ) =>
        ( /\ ret'.raised = ""
          /\ ret'.value.conversation_id = conversation_id
          /\ ret'.value.messages = messages
          /\ ret'.value.emotion_history = emotion_history ) ]_vars

C7_Witness ==
    /\ ret.op = "load_conversation" /\ ret.raised = ""
    /\ ret.args = PathOf(conversation_id)
    /\ Len(messages) = 2
    /\ ret.value.messages = messages
    /\ ret.value.emotion_history = emotion_history
    /\ Len(emotion_history) = 1
    /\ \E i \in 1..2 : messages[i].role = "user" /\ messages[i].emotions = << >>

\* C8 (as claimed): the file of a conversation that was saved always holds a
\* whole snapshot, the one of the last completed save, also while a later save
\* is under way or after it was interrupted.
C8_SaveIsAtomic ==
    \A path \in DOMAIN last_saved :
        /\ files[path].kind = "json"
        /\ files[path].doc = last_saved[path]

\* C9: add_message with a role other than 'user' or 'assistant' raises and
\* leaves messages and emotion_history unchanged, whenever it is called.
C9_InvalidRoleRejected ==
    [][ (ret'.op = "add_message" /\ ret'.args.role \notin {"user", "assistant"}) =>
        ( /\ ret'.raised = "ValueError"
          /\ messages' = messages
          /\ emotion_history' = emotion_history ) ]_vars

C9_Witness ==
    /\ ret.op = "add_message"
    /\ ret.args.role = "invalid"
    /\ ret.raised = "ValueError"
    /\ messages = << >>
    /\ emotion_history = << >>

\* C10: a valid add_message appends exactly one message at the end and keeps
\* the earlier ones; emotion_history gets the emotions appended exactly when
\* the role is 'user' and the emotions are non-empty, else it is unchanged.
C10_AddMessageFrame ==
    [][ ( /\ ret'.op = "add_message" /\ now' = now
          /\ ret'.args.role \in {"user", "assistant"} ) =>
        ( /\ ret'.raised = ""
          /\ Len(messages') = Len(messages) + 1
          /\ SubSeq(messages', 1, Len(messages)) = messages
          /\ messages'[Len(messages')].role = ret'.args.role
          /\ messages'[Len(messages')].content = ret'.args.content
          /\ messages'[Len(messages')].emotions = ret'.args.emotions
          /\ messages'[Len(messages')].timestamp = now
          /\ IF /\ ret'.args.role = "user"
                /\ ret'.args.emotions # None
                /\ ret'.args.emotions # << >>
             THEN emotion_history' = Append(emotion_history, ret'.args.emotions)
             ELSE emotion_history' = emotion_history ) ]_vars

C10_Witness ==
    /\ ret.op = "add_message" /\ ret.raised = ""
    /\ ret.args.role = "user"
    /\ ret.args.emotions = << >>
    /\ Len(messages) = 2
    /\ messages[1].role = "user"
    /\ emotion_history = << messages[1].emotions >>

\* C11 (as claimed): get_conversation_history(None) returns all messages, and
\* for every integer max_messages >= 0 it returns exactly the
\* min(max_messages, len(messages)) most recent messages, in chronological
\* order.
C11_HistoryWindow ==
    ret.op = "get_conversation_history" =>
        IF ret.args = None THEN ret.value = messages
        ELSE ret.args.val >= 0 =>
               ret.value = SubSeq(messages,
                                  Len(messages) - Min(ret.args.val, Len(messages)) + 1,
                                  Len(messages))

\* C12 (as claimed): after clear(), at whatever moment it is called, messages
\* and emotion_history are empty and conversation_id is a freshly generated id
\* that differs from the id the ledger had before.
C12_ClearStartsFreshConversation ==
    [][ (ret'.op = "clear" /\ now' = now) =>
        ( /\ messages' = << >>
          /\ emotion_history' = << >>
          /\ conversation_id' = GeneratedId(now)
          /\ conversation_id' # conversation_id ) ]_vars

\* the texts generate_response can return
ResponseTexts ==
    { "reply",
      "I'm having trouble generating a response right now. Could you try rephrasing your question?" }

C14_FallbackByDominantEmotion ==
    (ret.op = "generate_response" /\ ~ret.args.completion.ok) =>
        ret.value = DictGet(fallback_responses,
                            ret.args.emotion_result.dominant_emotion,
                            "I'm here to chat with you and understand how you're feeling.")

\* the classifier answered with status 200 and a body that parses
ClassifierPath ==
    /\ hume_session
    /\ hume_response.kind = "status"
    /\ hume_response.status_code = 200
    /\ hume_response.body.shape \in {"predictions", "no_predictions", "bad_structure"}

\* C15 (as claimed): in every result of the classifier path dominant_emotion
\* is a label of maximal score, ties broken by the order of the fixed
\* vocabulary list (not by the order of the classifier response), and
\* confidence is the score of the dominant label.
C15_DominantIsFirstMaxOfVocabulary ==
    (ret.op = "analyze_emotion" /\ ClassifierPath) =>
        /\ ret.value.dominant_emotion = FirstMax(primary_emotions, ret.value.emotions)
        /\ ret.value.confidence = ret.value.emotions[ret.value.dominant_emotion]

\* C16 (as claimed): for every text the local fallback analysis yields a
\* result whose scores and confidence all lie in [0,1], also for texts with
\* several keywords of one emotion; without any keyword the dominant emotion
\* is contentment with confidence 0.5.
C16_FallbackScoresInUnitInterval ==
    (ret.op = "analyze_emotion" /\ ~ClassifierPath) =>
        /\ \A l \in DOMAIN ret.value.emotions :
             0 <= ret.value.emotions[l] /\ ret.value.emotions[l] <= Tenths(10)
        /\ 0 <= ret.value.confidence /\ ret.value.confidence <= Tenths(10)
        /\ user_text = {} =>
             ret.value.dominant_emotion = "contentment" /\ ret.value.confidence = Tenths(5)

\* C18: the message list handed to the generator is the system prompt, then
\* the last min(6, n) of the n earlier exchanges in chronological order, each
\* as a user message followed by an assistant message, then the new user
\* message: 2 + 2 * min(6, n) messages.
C18_MessageHistoryWindow ==
    ret.op = "_build_message_history" =>
        LET h == ret.args.conversation_history
            n == Len(h)
            k == Min(6, n)
            v == ret.value
        IN  /\ Len(v) = 2 + 2 * k
            /\ v[1].role = "system"
            /\ \A j \in 1..k :
                 /\ v[2 * j] = [role |-> "user", content |-> h[n - k + j].user]
                 /\ v[2 * j + 1] = [role |-> "assistant", content |-> h[n - k + j].bot]
            /\ v[Len(v)] = [role |-> "user", content |-> ret.args.user_message]

\* a history of more than six exchanges was rendered
C18_Witness ==
    /\ ret.op = "_build_message_history"
    /\ Len(ret.args.conversation_history) > 6
    /\ Len(ret.value) = 14

\* the trend labels in lexical order
LexicalOrder == <<"anger", "fear", "joy", "sadness">>

\* C19 (as claimed): the trend rendering lists at most three trend emotions,
\* those of highest score in descending order, ties broken by the lexical
\* order of the labels; an empty trend renders as 'No previous emotional
\* context'.
C19_TopThreeTiesLexical ==
    ret.op = "_format_emotion_trend" =>
        IF ret.args.order = << >>
        THEN ret.value.text = "No previous emotional context"
        ELSE LET present == SelectSeq(LexicalOrder, LAMBDA l : l \in DOMAIN ret.args.val)
                 expected == FirstK(SortedByScoreDesc(present, ret.args.val), 3)
             IN  /\ Len(ret.value.items) = Len(expected)
                 /\ \A i \in DOMAIN expected : ret.value.items[i][1] = expected[i]

\* C17: update_from_emotion leaves every trait within [0,1] and increases
\* update_count by exactly 1 per call, whichever thresholds fire.
C17_TraitsBoundedCountIncrements ==
    [][ ret'.op = "update_from_emotion" =>
        LET s == ret'.args.session
        IN  /\ \A t \in TraitSet :
                 /\ 0 <= personality_profile'[s].traits[t]
                 /\ personality_profile'[s].traits[t] <= TraitOne
            /\ personality_profile'[s].update_count =
                 personality_profile[s].update_count + 1 ]_vars

\* an update in which no threshold fired, and a trait held at the upper bound
\* by the clamp
C17_Witness ==
    /\ ret.op = "update_from_emotion"
    /\ ret.args.record.confidence <= Tenths(6)
    /\ ret.args.engagement <= Tenths(7)
    /\ DOMAIN ret.args.record.emotions = {"joy"}
    /\ personality_profile["s1"].traits["humor_appreciation"] = TraitOne

\* C20 (as claimed): concurrent sessions share no mutable state: whatever a
\* session reads (precomputed insights, the result of a cached call) was
\* stored by an operation of that same session, never by another session.
C20_SessionsShareNoState ==
    /\ (ret.op = "cache_manager.get" /\ ret.value # None) =>
         cache_writer[ret.args.key] = ret.args.session
    /\ (ret.op = "get_similar_conversations" /\ ret.args.hit) =>
         cache_writer[ret.args.key] = ret.args.session

\* C21 (as claimed): within one conversation every message appended to the
\* ledger has a timestamp strictly greater than that of the message appended
\* before it.
C21_TimestampsStrictlyIncrease ==
    \A i \in 1..(Len(messages) - 1) :
        messages[i].timestamp < messages[i + 1].timestamp

\* C22 (as claimed): a ledger created without an explicit id, by construction
\* or by clear(), never gets the conversation_id (and so the file) of the
\* ledger it replaces.
C22_GeneratedIdsUnique ==
    [][ (ret'.op \in {"ConversationManager", "clear"} /\ now' = now) =>
        PathOf(conversation_id') # PathOf(conversation_id) ]_vars

\* the emotions of the user messages that carry non-empty emotions, in
\* message order
UserEmotions(msgs) ==
    LET carrying == SelectSeq(msgs, LAMBDA m : m.role = "user" /\ Truthy(m.emotions))
    IN  [ i \in DOMAIN carrying |-> carrying[i].emotions ]

\* C23 (as claimed): in every reachable state of a session emotion_history
\* equals the emotions of the user messages with non-empty emotions, in
\* message order.
C23_EmotionHistoryMirrorsMessages ==
    emotion_history = UserEmotions(messages)

\* C24 (as claimed): optimize_conversation_history(max_history) leaves the max_history
\* most recent turns in their original oldest-first order when the list is
\* longer than max_history, and the list unchanged otherwise.
C24_OptimizeKeepsChronologicalOrder ==
    ret.op = "optimize_conversation_history" =>
        LET turns == ret.args.conversation_turns
            cap == ret.args.max_history
        IN  ret.value = IF Len(turns) > cap THEN LastK(turns, cap) ELSE turns

\* the first invocation, among the first n, that does not raise an exception of
\* the `exceptions` tuple; 0 if all of them do
FirstSettled(func, n) ==
    IF \A i \in 1..n : func[i] = "raises" THEN 0
    ELSE CHOOSE i \in 1..n :
           /\ func[i] # "raises"
           /\ \A j \in 1..(i - 1) : func[j] = "raises"

\* C25: a function wrapped by with_retry(max_retries=N, exceptions=E) is invoked
\* at most N+1 times; the first success is returned without a further
\* invocation; if all N+1 invocations raise in E the last exception is raised;
\* an exception not in E propagates at once; the k-th retry waits
\* backoff_factor*2^(k-1), at most 60 seconds; every call ends.
C25_RetryContract ==
    ret.op = "with_retry" =>
        LET N == ret.args.max_retries
            func == ret.args.func
            out == ret.value
            settled == FirstSettled(func, N + 1)
        IN  /\ out.invocations \in 1..(N + 1)
            /\ settled = 0 =>
                 /\ out.invocations = N + 1
                 /\ out.raised = Outcome("raises", N + 1)
            /\ settled # 0 =>
                 /\ out.invocations = settled
                 /\ func[settled] = "returns" =>
                      out.value = Outcome("returns", settled) /\ out.raised = None
                 /\ func[settled] = "raises_other" =>
                      out.raised = Outcome("raises_other", settled)
            /\ out.waits = [ k \in 1..(out.invocations - 1) |->
                               Min(ret.args.backoff_factor * 2 ^ (k - 1), 2 * 60) ]

\* three retries with a capped wait, then a success on the last invocation
\* allowed
C25_Witness ==
    /\ ret.op = "with_retry"
    /\ ret.args.max_retries = 3
    /\ ret.value.invocations = 4
    /\ ret.value.waits = <<64, 2 * 60, 2 * 60>>
    /\ ret.value.value = Outcome("returns", 4)

\* C26 (as claimed): a turn of process_user_input that fails is run again, so
\* a failure reaches the caller only after the first attempt and 3 retries.
C26_FailedTurnIsRetried ==
    (ret.op = "process_user_input" /\ ret.raised # "") =>
        ret.args.invocations = 3 + 1

\* the cache is within its size and its two dicts have the same keys
CacheWellFormed(cm) ==
    /\ Cardinality(DOMAIN cm.cache) <= cm.max_size
    /\ DOMAIN cm.cache = DOMAIN cm.timestamps

\* the keys whose last access is the oldest
OldestKeys(cm) ==
    { k \in DOMAIN cm.timestamps :
        \A other \in DOMAIN cm.timestamps : cm.timestamps[k] <= cm.timestamps[other] }

\* the keys a sweep at time t removes
ExpiredKeys(cm, t) ==
    { k \in DOMAIN cm.timestamps : t - cm.timestamps[k] > 2 * cm.ttl_seconds }

C28_NoValueOlderThanTtl ==
    (ret.op = "CacheManager.get" /\ ret.value # None) =>
        ret.args.at - ret.value.made_at <= 2 * cache_manager.ttl_seconds

\* C29 (as claimed): a call of get_similar_conversations, decorated with
\* cache_response(ttl_seconds=1800), that repeats an earlier call is served
\* from the cache exactly when the function's last result for it is at most
\* 1800 seconds old.
C29_CachedForThirtyMinutes ==
    [][ ( /\ ret'.op = "get_similar_conversations" /\ now' = now
          /\ ret'.args.key \in DOMAIN computed_at ) =>
        ( ret'.args.hit <=> now - computed_at[ret'.args.key] <= 2 * 1800 ) ]_vars

\* C30 (as claimed): every add_request call eventually returns the result of
\* its request.
C30_EveryRequestReturns ==
    \A c \in Callers : (callers[c] = "waiting") ~> (callers[c] = "returned")
====
